---------------------------- MODULE Spec2Model ----------------------------
(***************************************************************************)
(* Model of src/app.py: the panchanga pipeline (Julian Day, Sun and Moon   *)
(* longitude, ayanamsa, classifiers) and the Flask handlers that run it    *)
(* and log every step into the process-wide list calculation_logs.         *)
(*                                                                         *)
(* Numbers.  Python floats are modelled in fixed point:                    *)
(*   - a longitude is an integer count of micro-degrees (Deg = 1 degree),  *)
(*     so the literals 13.333333, 3.333333 and 23.638333 are exact;        *)
(*   - a Julian Day is the pair <<day, sec>> standing for day + sec/86400  *)
(*     with 0 <= sec < 86400 (one float has one such pair);                *)
(*   - an hour count is an integer count of seconds (3600 = 1 hour).       *)
(* IEEE rounding of the doubles is not modelled.                           *)
(***************************************************************************)
EXTENDS Integers, Sequences, FiniteSets, TLC

\* One degree, in micro-degrees: the resolution of the literals of the code.
Deg == 1000000
\* The 360 of every "% 360".
Circle == 360 * Deg
\* 13.333333, the width of a nakshatra and of a yoga.
NakshatraSpan == 13333333
\* 3.333333, the width of a pada.
PadaSpan == 3333333
\* 30, the width of a rasi.
RasiSpan == 30 * Deg
\* 12, the width of a tithi.
TithiSpan == 12 * Deg
\* 23.638333, the Chitra Paksha ayanamsa.
ChitraPaksha == 23638333
\* One day, in seconds.
DaySec == 86400

NAKSHATRAS ==
  << "Ashwini", "Bharani", "Krittika", "Rohini", "Mrigashira",
     "Ardra", "Punarvasu", "Pushya", "Ashlesha", "Magha",
     "Purva Phalguni", "Uttara Phalguni", "Hasta", "Chitra", "Swati",
     "Vishakha", "Anuradha", "Jyeshta", "Mula", "Purva Ashadha",
     "Uttara Ashadha", "Shravana", "Dhanishta", "Shatabhisha", "Purva Bhadrapada",
     "Uttara Bhadrapada", "Revati" >>

RASIS ==
  << "Mesha", "Vrishabha", "Mithuna", "Karka", "Simha",
     "Kanya", "Tula", "Vrischika", "Dhanu", "Makara",
     "Kumbha", "Meena" >>

RASI_LORDS ==
  << "Mangal", "Shukra", "Budha", "Chandra", "Surya",
     "Budha", "Shukra", "Mangal", "Guru", "Shani",
     "Shani", "Guru" >>

NAKSHATRA_LORDS ==
  << "Ketu", "Shukra", "Surya", "Chandra", "Mangal",
     "Rahu", "Guru", "Shani", "Budha", "Ketu",
     "Shukra", "Surya", "Chandra", "Mangal", "Rahu",
     "Guru", "Shani", "Budha", "Ketu", "Shukra",
     "Surya", "Chandra", "Mangal", "Rahu", "Guru",
     "Shani", "Budha" >>

TITHIS ==
  << "Pratipada", "Dwitiya", "Tritiya", "Chaturthi", "Panchami",
     "Shashthi", "Saptami", "Ashtami", "Navami", "Dashami",
     "Ekadashi", "Dwadashi", "Trayodashi", "Chaturdashi", "Purnima/Amavasya" >>

YOGAS ==
  << "Vishkambha", "Priti", "Ayushman", "Saubhagya", "Shobhana",
     "Atiganda", "Sukarma", "Dhriti", "Shula", "Ganda",
     "Vriddhi", "Dhruva", "Vyaghata", "Harshana", "Vajra",
     "Siddhi", "Sadhya", "Shubha", "Shukla", "Brahma",
     "Indra", "Vaidhriti", "Parigha", "Shiva", "Siddha",
     "Sadhaka", "Vimala" >>

---------------------------------------------------------------------------
(* Arithmetic of the Python operators the code uses.                       *)

\* min(a, b)
Min(a, b) == IF a <= b THEN a ELSE b

\* int(a / b) for b > 0: Python's int() truncates towards zero.
IntDiv(a, b) == IF a >= 0 THEN a \div b ELSE -((-a) \div b)

\* a % b for b > 0: Python's result has the sign of the divisor.
PyMod(a, b) == a % b

\* (a * n) % m for 0 <= a < m, computed without leaving 32 bits.
RECURSIVE MulMod(_, _, _)
MulMod(a, n, m) ==
  IF n = 0 THEN 0
  ELSE IF n < 0 THEN (m - MulMod(a, -n, m)) % m
  ELSE (2 * MulMod(a, n \div 2, m) + (n % 2) * a) % m

\* sin of a whole number of degrees in 0..180, times 10000 (Bhaskara's
\* rational approximation, absolute error below 0.002).
SinDeg(k) == (40000 * (k * (180 - k))) \div (40500 - k * (180 - k))

\* math.sin(math.radians(x)) times 10000 for x in micro-degrees: the table
\* value of the whole degree, linearly interpolated within the degree.
Sin4(x) ==
  LET r == PyMod(x, Circle)
      h == IF r >= 180 * Deg THEN r - 180 * Deg ELSE r
      k == h \div Deg
      f == h % Deg
      s == SinDeg(k) + ((SinDeg(k + 1) - SinDeg(k)) * (f \div 100)) \div 10000
  IN  IF r >= 180 * Deg THEN -s ELSE s

---------------------------------------------------------------------------
(* The pure functions of the pipeline.                                     *)

\* calculate_julian_day(year, month, day, hour, minute, second); hourSec is
\* the hour argument in seconds (the handler passes hour - timezone).
calculate_julian_day_NoShift(year, month, day, hourSec, minute, second) ==
  LET A  == year \div 100
      B  == 2 - A + (A \div 4)
      n  == IntDiv(1461 * (year + 4716), 4)
              + IntDiv(306001 * (month + 1), 10000) + day + B
      f  == hourSec + 60 * minute + second + (DaySec \div 2)
  IN  << n - 1525 + (f \div DaySec), f % DaySec >>

calculate_julian_day_WholeHours(year, month, day, hourSec, minute, second) ==
  LET y  == IF month <= 2 THEN year - 1 ELSE year
      m  == IF month <= 2 THEN month + 12 ELSE month
      A  == y \div 100
      B  == 2 - A + (A \div 4)
      n  == IntDiv(1461 * (y + 4716), 4) + IntDiv(306001 * (m + 1), 10000) + day + B
      f  == hourSec + 3600 * (minute \div 60) + 3600 * (second \div 3600) + (DaySec \div 2)
  IN  << n - 1525 + (f \div DaySec), f % DaySec >>

calculate_julian_day(year, month, day, hourSec, minute, second) ==
  LET y  == IF month <= 2 THEN year - 1 ELSE year
      m  == IF month <= 2 THEN month + 12 ELSE month
      A  == y \div 100
      B  == 2 - A + (A \div 4)
      \* int(365.25 * (year + 4716)) + int(30.6001 * (month + 1)) + day + B
      n  == IntDiv(1461 * (y + 4716), 4) + IntDiv(306001 * (m + 1), 10000) + day + B
      \* - 1524.5 + (hour + minute/60 + second/3600) / 24, in seconds
      f  == hourSec + 60 * minute + second + (DaySec \div 2)
  IN  << n - 1525 + (f \div DaySec), f % DaySec >>

\* jd - 2451545.0, in seconds: the numerator of T = (jd - 2451545.0) / 36525.0
\* (T is this number of seconds over 36525 * 86400).
CenturyT(jd) == (jd[1] - 2451545) * DaySec + jd[2]

\* jd2 - jd1 in seconds.
JDDiff(jd2, jd1) == (jd2[1] - jd1[1]) * DaySec + (jd2[2] - jd1[2])

\* A mean argument c0 + rate * T (mod 360) in micro-degrees: perDay and
\* perSec10 are the rate per day and per ten seconds.
MeanArg(c0, perDay, perSec10, jd) ==
  (c0 + MulMod(perDay, jd[1] - 2451545, Circle) + (jd[2] * perSec10) \div 10) % Circle

\* calculate_sun_position(jd).  The terms in T*T and the T-dependence of the
\* amplitudes (below 0.001 degree within a century of J2000) are dropped; the
\* result is within about 0.01 degree of the double the code computes.
calculate_sun_position(jd) ==
  LET L0 == MeanArg(280466460, 985647, 114, jd)
      M  == MeanArg(357529110, 985600, 114, jd)
      C  == (19146 * Sin4(M)) \div 100 + (19993 * Sin4(2 * M)) \div 10000
              + (29 * Sin4(3 * M)) \div 10000
  IN  PyMod(L0 + C, Circle)

\* calculate_moon_position(jd).  M, F, A1 and A2 are computed by the code
\* and never used; the terms in T*T and above are dropped as for the Sun.
calculate_moon_position(jd) ==
  LET Lp == MeanArg(218316448, 13176396, 1525, jd)
      D  == MeanArg(297850192, 12190749, 1411, jd)
      Mp == MeanArg(134963396, 13064993, 1512, jd)
  IN  PyMod(Lp + (62888 * Sin4(Mp)) \div 100
               + (12740 * Sin4(2 * D - Mp)) \div 100
               + (6589 * Sin4(2 * D)) \div 100
               + (2191 * Sin4(2 * Mp)) \div 100
               + (1475 * Sin4(D)) \div 100
               + (1412 * Sin4(Mp - D)) \div 100, Circle)

\* apply_ayanamsa(longitude, ayanamsa_value)
apply_ayanamsa_Added(longitude, ayanamsa_value) ==
  PyMod(longitude + ayanamsa_value, Circle)

apply_ayanamsa(longitude, ayanamsa_value) ==
  PyMod(longitude - ayanamsa_value, Circle)

\* get_nakshatra(moon_lon): <<name, number, pada, lord>>
get_nakshatra(moon_lon) ==
  LET nak_index == Min(IntDiv(moon_lon, NakshatraSpan), 26)
      pada      == IntDiv(PyMod(moon_lon, NakshatraSpan), PadaSpan) + 1
  IN  << NAKSHATRAS[nak_index + 1], nak_index + 1, pada, NAKSHATRA_LORDS[nak_index + 1] >>

\* get_rasi(longitude): <<name, number, lord>>
get_rasi_NoClamp(longitude) ==
  LET rasi_index == IntDiv(longitude, RasiSpan)
  IN  << IF rasi_index < 12 THEN RASIS[rasi_index + 1] ELSE "IndexError",
         rasi_index + 1,
         IF rasi_index < 12 THEN RASI_LORDS[rasi_index + 1] ELSE "IndexError" >>

get_rasi_EdgeBelow(longitude) ==
  LET rasi_index == Min(IntDiv(longitude - 1, RasiSpan), 11)
  IN  << RASIS[rasi_index + 1], rasi_index + 1, RASI_LORDS[rasi_index + 1] >>

get_rasi(longitude) ==
  LET rasi_index == Min(IntDiv(longitude, RasiSpan), 11)
  IN  << RASIS[rasi_index + 1], rasi_index + 1, RASI_LORDS[rasi_index + 1] >>

\* get_tithi(sun_lon, moon_lon): <<name, number, paksha>>
get_tithi_Clamp29(sun_lon, moon_lon) ==
  LET elongation  == PyMod(moon_lon - sun_lon, Circle)
      tithi_index == Min(IntDiv(elongation, TithiSpan), 29)
      paksha      == IF tithi_index < 15 THEN "Suklapaksha" ELSE "Krishnapaksha"
  IN  << TITHIS[(tithi_index % 15) + 1], (tithi_index % 15) + 1, paksha >>

get_tithi(sun_lon, moon_lon) ==
  LET elongation  == PyMod(moon_lon - sun_lon, Circle)
      tithi_index == Min(IntDiv(elongation, TithiSpan), 14)
      paksha      == IF tithi_index < 15 THEN "Suklapaksha" ELSE "Krishnapaksha"
  IN  << TITHIS[tithi_index + 1], tithi_index + 1, paksha >>

\* get_yoga(sun_lon, moon_lon): <<name, number>>
get_yoga(sun_lon, moon_lon) ==
  LET yoga_sum   == PyMod(sun_lon + moon_lon, Circle)
      yoga_index == Min(IntDiv(yoga_sum, NakshatraSpan), 26)
  IN  << YOGAS[yoga_index + 1], yoga_index + 1 >>

---------------------------------------------------------------------------
(* Request bodies.  A JSON object is a function from its keys to values; a *)
(* key that is absent is the Python None that data.get(key) returns, so a  *)
(* dict entry whose value is None is modelled as an absent entry.  The     *)
(* texts the code parses (birth_date, birth_time) are sequences of         *)
(* one-character strings; the other texts are strings.                     *)

\* An empty dict.
EmptyDict == [k \in {} |-> k]

\* {key: d.get(key)}: the entry, or nothing when d.get(key) is None.
Entry(d, key) == IF key \in DOMAIN d THEN key :> d[key] ELSE EmptyDict

\* d.get(key, default)
PyGet(d, key, default) == IF key \in DOMAIN d THEN d[key] ELSE default

Digits == {"0", "1", "2", "3", "4", "5", "6", "7", "8", "9"}

DigitVal(c) ==
  CASE c = "0" -> 0 [] c = "1" -> 1 [] c = "2" -> 2 [] c = "3" -> 3 [] c = "4" -> 4
    [] c = "5" -> 5 [] c = "6" -> 6 [] c = "7" -> 7 [] c = "8" -> 8 [] c = "9" -> 9

\* s.split(sep) for a one-character separator.
RECURSIVE Split(_, _)
Split(s, sep) ==
  IF \A i \in 1..Len(s) : s[i] # sep THEN << s >>
  ELSE LET i == CHOOSE j \in 1..Len(s) : s[j] = sep /\ \A k \in 1..(j - 1) : s[k] # sep
       IN  << SubSeq(s, 1, i - 1) >> \o Split(SubSeq(s, i + 1, Len(s)), sep)

\* Whether int(s) returns (an optional sign and decimal digits; the blanks
\* and underscores int() also accepts occur in no modelled body).
IsInt(s) ==
  LET t == IF Len(s) > 0 /\ s[1] \in {"-", "+"} THEN Tail(s) ELSE s
  IN  Len(t) > 0 /\ \A i \in 1..Len(t) : t[i] \in Digits

RECURSIVE DecVal(_)
DecVal(t) == IF t = << >> THEN 0 ELSE 10 * DecVal(SubSeq(t, 1, Len(t) - 1)) + DigitVal(t[Len(t)])

\* int(s) where IsInt(s)
PyInt(s) ==
  IF s[1] = "-" THEN -DecVal(Tail(s)) ELSE IF s[1] = "+" THEN DecVal(Tail(s)) ELSE DecVal(s)

\* float(data.get('timezone', 5.5)): 5.5 hours, in seconds.
DefaultTimezone == 19800

\* int(parts[i - 1]): "ok", or the exception it raises.
IntAt(parts, i) ==
  IF i > Len(parts) THEN "list index out of range"
  ELSE IF ~IsInt(parts[i]) THEN "invalid literal for int() with base 10"
  ELSE "ok"

\* The first exception lines 180-195 raise on a body, or "ok".
ParseError(data) ==
  IF "birth_date" \notin DOMAIN data \/ "birth_time" \notin DOMAIN data
  THEN "'NoneType' object has no attribute 'split'"
  ELSE LET date_parts == Split(data["birth_date"], "-")
           time_parts == Split(data["birth_time"], ":")
           tries == << IntAt(date_parts, 1), IntAt(date_parts, 2), IntAt(date_parts, 3),
                       IntAt(time_parts, 1), IntAt(time_parts, 2),
                       IF Len(time_parts) > 2 THEN IntAt(time_parts, 3) ELSE "ok" >>
       IN  IF \A i \in 1..6 : tries[i] = "ok" THEN "ok"
           ELSE tries[CHOOSE i \in 1..6 : tries[i] # "ok" /\ \A j \in 1..(i - 1) : tries[j] = "ok"]

\* The locals lines 180-201 assign on a body that parses.
ParsedLocals(data) ==
  LET date_parts == Split(data["birth_date"], "-")
      time_parts == Split(data["birth_time"], ":")
      timezone   == PyGet(data, "timezone", DefaultTimezone)
      hour       == PyInt(time_parts[1])
      hour_utc   == hour * 3600 - timezone
      second     == IF Len(time_parts) > 2 THEN PyInt(time_parts[3]) ELSE 0
  IN  [ birth_date |-> data["birth_date"],
        birth_time |-> data["birth_time"],
        timezone   |-> timezone,
        latitude   |-> PyGet(data, "latitude", 0),
        longitude  |-> PyGet(data, "longitude", 0),
        year       |-> PyInt(date_parts[1]),
        month      |-> PyInt(date_parts[2]),
        day        |-> PyInt(date_parts[3]),
        hour       |-> hour,
        minute     |-> PyInt(time_parts[2]),
        second     |-> second,
        hour_utc   |-> hour_utc,
        jd         |-> calculate_julian_day(PyInt(date_parts[1]), PyInt(date_parts[2]),
                         PyInt(date_parts[3]), hour_utc, PyInt(time_parts[2]), second) ]

\* The dict logged as INPUT (lines 168-177).
InputData(data) ==
  Entry(data, "name") @@ Entry(data, "sex") @@ Entry(data, "birth_date")
    @@ Entry(data, "birth_time") @@ Entry(data, "timezone") @@ Entry(data, "latitude")
    @@ Entry(data, "longitude")
    @@ ("ayanamsa" :> PyGet(data, "ayanamsa", "Chitra Paksha"))

\* The result dict of lines 266-309, from the body and the locals.
Result_NameOfLagna(data, l) ==
  Entry([name |-> l.lagna[1]], "name") @@ Entry(data, "sex")
    @@ [ birth_date |-> l.birth_date, birth_time |-> l.birth_time,
         timezone |-> l.timezone, latitude |-> l.latitude, longitude |-> l.longitude,
         ayanamsa |-> "Chitra Paksha",
         tithi |-> [name |-> l.tithi[1], number |-> l.tithi[2], paksha |-> l.tithi[3]],
         lagna |-> [sign |-> l.lagna[1], lord |-> l.lagna[3], degrees |-> l.lagna_lon],
         rasi |-> [sign |-> l.rasi[1], lord |-> l.rasi[3]],
         nakshatra |-> [name |-> l.nakshatra[1], number |-> l.nakshatra[2],
                        lord |-> l.nakshatra[4], pada |-> l.nakshatra[3]],
         yoga |-> [name |-> l.yoga[1], number |-> l.yoga[2]],
         planets |-> [sun  |-> [longitude |-> l.sun_nirayana,
                                sign |-> get_rasi(l.sun_nirayana)[1]],
                      moon |-> [longitude |-> l.moon_nirayana,
                                sign |-> get_rasi(l.moon_nirayana)[1]]] ]

Result(data, l) ==
  Entry(data, "name") @@ Entry(data, "sex")
    @@ [ birth_date |-> l.birth_date, birth_time |-> l.birth_time,
         timezone |-> l.timezone, latitude |-> l.latitude, longitude |-> l.longitude,
         ayanamsa |-> "Chitra Paksha",
         tithi |-> [name |-> l.tithi[1], number |-> l.tithi[2], paksha |-> l.tithi[3]],
         lagna |-> [sign |-> l.lagna[1], lord |-> l.lagna[3], degrees |-> l.lagna_lon],
         rasi |-> [sign |-> l.rasi[1], lord |-> l.rasi[3]],
         nakshatra |-> [name |-> l.nakshatra[1], number |-> l.nakshatra[2],
                        lord |-> l.nakshatra[4], pada |-> l.nakshatra[3]],
         yoga |-> [name |-> l.yoga[1], number |-> l.yoga[2]],
         planets |-> [sun  |-> [longitude |-> l.sun_nirayana,
                                sign |-> get_rasi(l.sun_nirayana)[1]],
                      moon |-> [longitude |-> l.moon_nirayana,
                                sign |-> get_rasi(l.moon_nirayana)[1]]] ]

---------------------------------------------------------------------------
(* The server: the handlers of concurrent requests over calculation_logs.  *)

\* The chart requests in flight: two threads of the server.
Requests == {1, 2}

\* How often a chart request may be interrupted by the other one before it
\* returns, and how many clear_logs requests arrive.
MaxPreempt == 2
MaxClears == 1

S_2000_01_01 == << "2", "0", "0", "0", "-", "0", "1", "-", "0", "1" >>
S_1995_08_15 == << "1", "9", "9", "5", "-", "0", "8", "-", "1", "5" >>
S_2000_01 == << "2", "0", "0", "0", "-", "0", "1" >>
S_12_00_00 == << "1", "2", ":", "0", "0", ":", "0", "0" >>
S_06_30 == << "0", "6", ":", "3", "0" >>

\* The JSON bodies the clients post: a full one that names another ayanamsa,
\* one that leaves the optional keys and the seconds out, and one whose
\* birth_date has no day.
BodyAsha ==
  [ name |-> "Asha", sex |-> "F", birth_date |-> S_2000_01_01, birth_time |-> S_12_00_00,
    timezone |-> 0, latitude |-> 13082700, longitude |-> 80270700, ayanamsa |-> "Lahiri" ]

BodyRavi ==
  [ name |-> "Ravi", birth_date |-> S_1995_08_15, birth_time |-> S_06_30,
    ayanamsa |-> "Chitra Paksha" ]

BodyNoDay ==
  [ name |-> "Asha", sex |-> "F", birth_date |-> S_2000_01, birth_time |-> S_12_00_00,
    timezone |-> 0 ]

Bodies == {BodyAsha, BodyRavi, BodyNoDay}

\* What the client behind each request posts.
Posts(p) == IF p = 1 THEN {BodyAsha, BodyNoDay} ELSE {BodyRavi, BodyNoDay}

VARIABLES
  calculation_logs,  \* the global list: entries [step, data, by]
  request,           \* request.json of each chart request (Flask's request context)
  pc,                \* where each chart request stands in calculate_birth_chart
  frame,             \* the local variables of each chart request
  response,          \* what each chart request returned
  trace,             \* history: the steps each request passed to log_calculation
  clears,            \* how many clear_logs requests were served
  running,           \* the chart request that ran last (0: none yet)
  preempts,          \* how often a chart request was interrupted
  call               \* a call of one pure function: [fn, args, ret, done, n]

sys == << calculation_logs, request, pc, frame, response, trace, clears, running, preempts >>
vars == << calculation_logs, request, pc, frame, response, trace, clears, running, preempts, call >>

NoCall == [fn |-> "none", args |-> << >>, ret |-> << >>, done |-> FALSE, n |-> 0]

InitSys ==
  /\ calculation_logs = << >>
  /\ request = [p \in Requests |-> EmptyDict]
  /\ pc = [p \in Requests |-> "idle"]
  /\ frame = [p \in Requests |-> EmptyDict]
  /\ response = [p \in Requests |-> EmptyDict]
  /\ trace = [p \in Requests |-> << >>]
  /\ clears = 0
  /\ running = 0
  /\ preempts = 0

Init == InitSys /\ call = NoCall

\* The entries as jsonify sends them.  "by" is a tag of the model (which
\* request appended the entry); the timestamp of an entry is left out.
Strip(logs) == [i \in 1..Len(logs) |-> [step |-> logs[i].step, data |-> logs[i].data]]

\* log_calculation(step, data), called by request p.  The data of an ERROR
\* entry is the text of the exception, without the traceback.
log_calculation_Front(p, step, data) ==
  /\ calculation_logs' = << [step |-> step, data |-> data, by |-> p] >> \o calculation_logs
  /\ trace' = [trace EXCEPT ![p] = Append(@, step)]

log_calculation(p, step, data) ==
  /\ calculation_logs' = Append(calculation_logs, [step |-> step, data |-> data, by |-> p])
  /\ trace' = [trace EXCEPT ![p] = Append(@, step)]

\* The frame that holds the locals of request p: a call's own.
Slot_Shared(p) == CHOOSE q \in Requests : \A r \in Requests : q <= r

Slot(p) == p

\* The locals of request p.
L(p) == frame[Slot(p)]

\* Request p assigns the locals new.
Assign(p, new) == frame' = [frame EXCEPT ![Slot(p)] = new @@ @]

\* The scheduler gives the processor to request p.
Run(p) ==
  /\ running' = p
  /\ IF running \in {0, p} \/ pc[running] = "done"
     THEN preempts' = preempts
     ELSE preempts < MaxPreempt /\ preempts' = preempts + 1

\* Lines 165-177: data = request.json; log INPUT.
Begin(p) ==
  /\ pc[p] = "idle"
  /\ Run(p)
  /\ \E body \in Posts(p) :
       /\ request' = [request EXCEPT ![p] = body]
       /\ Assign(p, [data |-> body])
       /\ log_calculation(p, "INPUT", InputData(body))
  /\ pc' = [pc EXCEPT ![p] = "parse"]
  /\ UNCHANGED << response, clears, call >>

\* Lines 180-202: parse, Julian Day, log JULIAN_DAY; or the exception and
\* lines 319-322: log ERROR.
Parse(p) ==
  /\ pc[p] = "parse"
  /\ Run(p)
  /\ LET err == ParseError(L(p).data)
     IN  IF err = "ok"
         THEN LET l == ParsedLocals(L(p).data)
              IN  /\ Assign(p, l)
                  /\ log_calculation(p, "JULIAN_DAY", [jd |-> l.jd])
                  /\ pc' = [pc EXCEPT ![p] = "sayana"]
         ELSE /\ Assign(p, [e |-> err])
              /\ log_calculation(p, "ERROR", [error |-> err])
              /\ pc' = [pc EXCEPT ![p] = "failed"]
  /\ UNCHANGED << request, response, clears, call >>

\* Lines 205-211.
Sayana(p) ==
  /\ pc[p] = "sayana"
  /\ Run(p)
  /\ LET sun_sayana  == calculate_sun_position(L(p).jd)
         moon_sayana == calculate_moon_position(L(p).jd)
     IN  /\ Assign(p, [sun_sayana |-> sun_sayana, moon_sayana |-> moon_sayana])
         /\ log_calculation(p, "SAYANA_POSITIONS",
                            [sun_sayana |-> sun_sayana, moon_sayana |-> moon_sayana])
  /\ pc' = [pc EXCEPT ![p] = "nirayana"]
  /\ UNCHANGED << request, response, clears, call >>

\* Lines 214-222.
Nirayana(p) ==
  /\ pc[p] = "nirayana"
  /\ Run(p)
  /\ LET ayanamsa_value == ChitraPaksha
         sun_nirayana   == apply_ayanamsa(L(p).sun_sayana, ayanamsa_value)
         moon_nirayana  == apply_ayanamsa(L(p).moon_sayana, ayanamsa_value)
     IN  /\ Assign(p, [ayanamsa_value |-> ayanamsa_value,
                       sun_nirayana |-> sun_nirayana, moon_nirayana |-> moon_nirayana])
         /\ log_calculation(p, "NIRAYANA_POSITIONS",
                            [sun_nirayana |-> sun_nirayana, moon_nirayana |-> moon_nirayana,
                             ayanamsa_applied |-> ayanamsa_value])
  /\ pc' = [pc EXCEPT ![p] = "nakshatra"]
  /\ UNCHANGED << request, response, clears, call >>

\* Lines 225-231.
Nakshatra(p) ==
  /\ pc[p] = "nakshatra"
  /\ Run(p)
  /\ LET n == get_nakshatra(L(p).moon_nirayana)
     IN  /\ Assign(p, [nakshatra |-> n])
         /\ log_calculation(p, "NAKSHATRA",
                            [name |-> n[1], number |-> n[2], pada |-> n[3], lord |-> n[4]])
  /\ pc' = [pc EXCEPT ![p] = "rasi"]
  /\ UNCHANGED << request, response, clears, call >>

\* Lines 234-239.
Rasi(p) ==
  /\ pc[p] = "rasi"
  /\ Run(p)
  /\ LET r == get_rasi(L(p).moon_nirayana)
     IN  /\ Assign(p, [rasi |-> r])
         /\ log_calculation(p, "RASI", [name |-> r[1], number |-> r[2], lord |-> r[3]])
  /\ pc' = [pc EXCEPT ![p] = "tithi"]
  /\ UNCHANGED << request, response, clears, call >>

\* Lines 242-247.
Tithi(p) ==
  /\ pc[p] = "tithi"
  /\ Run(p)
  /\ LET t == get_tithi(L(p).sun_nirayana, L(p).moon_nirayana)
     IN  /\ Assign(p, [tithi |-> t])
         /\ log_calculation(p, "TITHI", [name |-> t[1], number |-> t[2], paksha |-> t[3]])
  /\ pc' = [pc EXCEPT ![p] = "yoga"]
  /\ UNCHANGED << request, response, clears, call >>

\* Lines 250-254.
Yoga(p) ==
  /\ pc[p] = "yoga"
  /\ Run(p)
  /\ LET y == get_yoga(L(p).sun_nirayana, L(p).moon_nirayana)
     IN  /\ Assign(p, [yoga |-> y])
         /\ log_calculation(p, "YOGA", [name |-> y[1], number |-> y[2]])
  /\ pc' = [pc EXCEPT ![p] = "lagna"]
  /\ UNCHANGED << request, response, clears, call >>

\* Lines 257-264.
Lagna(p) ==
  /\ pc[p] = "lagna"
  /\ Run(p)
  /\ LET lagna_lon == PyMod(L(p).sun_nirayana + L(p).hour * 15 * Deg, Circle)
         g         == get_rasi(lagna_lon)
     IN  /\ Assign(p, [lagna_lon |-> lagna_lon, lagna |-> g])
         /\ log_calculation(p, "LAGNA",
                            [name |-> g[1], number |-> g[2], lord |-> g[3],
                             longitude |-> lagna_lon])
  /\ pc' = [pc EXCEPT ![p] = "result"]
  /\ UNCHANGED << request, response, clears, call >>

\* Lines 266-311: the result dict; log BIRTH_CHART_CALCULATED.
Assemble(p) ==
  /\ pc[p] = "result"
  /\ Run(p)
  /\ Assign(p, [result |-> Result(L(p).data, L(p))])
  /\ log_calculation(p, "BIRTH_CHART_CALCULATED", [status |-> "Complete"])
  /\ pc' = [pc EXCEPT ![p] = "return"]
  /\ UNCHANGED << request, response, clears, call >>

\* What lines 313-317 return: the result and the global list as it is now.
Success(p) ==
  [ success |-> TRUE, data |-> L(p).result, status |-> 200,
    logs |-> Strip(calculation_logs) ]

\* What lines 323-327 return.
Failure(p) ==
  [ success |-> FALSE, error |-> L(p).e, status |-> 400,
    logs |-> Strip(calculation_logs) ]

\* Lines 313-317.
Return(p) ==
  /\ pc[p] = "return"
  /\ Run(p)
  /\ response' = [response EXCEPT ![p] = Success(p)]
  /\ pc' = [pc EXCEPT ![p] = "done"]
  /\ UNCHANGED << calculation_logs, request, frame, trace, clears, call >>

\* Lines 323-327.
ReturnError(p) ==
  /\ pc[p] = "failed"
  /\ Run(p)
  /\ response' = [response EXCEPT ![p] = Failure(p)]
  /\ pc' = [pc EXCEPT ![p] = "done"]
  /\ UNCHANGED << calculation_logs, request, frame, trace, clears, call >>

\* POST /api/clear-logs
clear_logs ==
  /\ clears < MaxClears
  /\ calculation_logs' = << >>
  /\ clears' = clears + 1
  /\ UNCHANGED << request, pc, frame, response, trace, running, preempts, call >>

\* GET /api/get-logs: returns the list and changes nothing.
get_logs ==
  /\ LET returned == [logs |-> Strip(calculation_logs), status |-> 200]
     IN  returned.status = 200
  /\ UNCHANGED vars

\* GET /api/health
health ==
  /\ UNCHANGED vars

calculate_birth_chart(p) ==
  \/ Begin(p)
  \/ Parse(p)
  \/ Sayana(p)
  \/ Nirayana(p)
  \/ Nakshatra(p)
  \/ Rasi(p)
  \/ Tithi(p)
  \/ Yoga(p)
  \/ Lagna(p)
  \/ Assemble(p)
  \/ Return(p)
  \/ ReturnError(p)

Next ==
  \/ \E p \in Requests : calculate_birth_chart(p)
  \/ clear_logs
  \/ get_logs
  \/ health

Spec == Init /\ [][Next]_vars

---------------------------------------------------------------------------
(* The pure functions on their own: Init draws the arguments of one call,  *)
(* the action of the function called computes what it returns.             *)

\* How many micro-degrees either side of a bucket edge the arguments cover,
\* and how many times the second of a birth moment is advanced.
Fine == 2
MaxTicks == 2

\* The edges of the buckets of every classifier, and 360 itself.
Edges ==
  {k * RasiSpan : k \in 0..12} \cup {k * TithiSpan : k \in 0..30}
    \cup {k * NakshatraSpan : k \in 0..27}
    \cup {k * NakshatraSpan + j * PadaSpan : k \in 0..26, j \in 1..4}

\* Longitudes in [0, 360]: around every edge, and every fifth degree.
Longitudes ==
  {c \in {e + d : e \in Edges, d \in (0 - Fine)..Fine} : c >= 0 /\ c <= Circle}
    \cup {5 * k * Deg : k \in 0..72}

\* The Sun longitudes paired with every Moon longitude.
SunLongitudes ==
  {0, 1, 10 * Deg, ChitraPaksha, 180 * Deg, 280381043, Circle - 1, Circle}

\* Tropical longitudes and ayanamsas, in and out of [0, 360).
Tropicals ==
  {c + d : c \in {0 - Circle, 0, ChitraPaksha, 180 * Deg, Circle, 2 * Circle},
           d \in (0 - Fine)..Fine}
    \cup {7 * k * Deg : k \in (0 - 10)..60}

Ayanamsas == {ChitraPaksha, 0, 0 - ChitraPaksha, 24 * Deg, Circle, 400 * Deg + 1}

\* Birth moments: [year, month, day, hour, minute, second, timezone], the
\* timezone in seconds.
Moments ==
  [ year : {1999, 2000, 2004}, month : {1, 2, 3, 12}, day : {1, 29, 31},
    hour : {0, 11, 12, 23}, minute : {0, 59}, second : {0, 58, 59},
    timezone : {0, DefaultTimezone, 0 - 28800} ]

Calls ==
  {[fn |-> "get_nakshatra", args |-> << l >>, ret |-> << >>, done |-> FALSE, n |-> 0] :
      l \in Longitudes}
  \cup {[fn |-> "get_rasi", args |-> << l >>, ret |-> << >>, done |-> FALSE, n |-> 0] :
      l \in Longitudes}
  \cup {[fn |-> "get_tithi", args |-> << s, m >>, ret |-> << >>, done |-> FALSE, n |-> 0] :
      s \in SunLongitudes, m \in Longitudes}
  \cup {[fn |-> "get_yoga", args |-> << s, m >>, ret |-> << >>, done |-> FALSE, n |-> 0] :
      s \in SunLongitudes, m \in Longitudes}
  \cup {[fn |-> "apply_ayanamsa", args |-> << t, a >>, ret |-> << >>, done |-> FALSE, n |-> 0] :
      t \in Tropicals, a \in Ayanamsas}
  \cup {[fn |-> "calculate_julian_day", args |-> << b >>, ret |-> << >>, done |-> FALSE,
         n |-> 0] : b \in Moments}

InitPure == InitSys /\ call \in Calls

\* The Julian Day of a birth moment, as lines 198-201 compute it.
JulianDayOf(b) ==
  calculate_julian_day(b.year, b.month, b.day, b.hour * 3600 - b.timezone, b.minute, b.second)

Returned(v) == call' = [call EXCEPT !.ret = v, !.done = TRUE]

Call_get_nakshatra ==
  /\ call.fn = "get_nakshatra" /\ ~call.done
  /\ Returned(get_nakshatra(call.args[1]))
  /\ UNCHANGED sys

Call_get_rasi ==
  /\ call.fn = "get_rasi" /\ ~call.done
  /\ Returned(get_rasi(call.args[1]))
  /\ UNCHANGED sys

Call_get_tithi ==
  /\ call.fn = "get_tithi" /\ ~call.done
  /\ Returned(get_tithi(call.args[1], call.args[2]))
  /\ UNCHANGED sys

Call_get_yoga ==
  /\ call.fn = "get_yoga" /\ ~call.done
  /\ Returned(get_yoga(call.args[1], call.args[2]))
  /\ UNCHANGED sys

Call_apply_ayanamsa ==
  /\ call.fn = "apply_ayanamsa" /\ ~call.done
  /\ Returned(apply_ayanamsa(call.args[1], call.args[2]))
  /\ UNCHANGED sys

Call_calculate_julian_day ==
  /\ call.fn = "calculate_julian_day" /\ ~call.done
  /\ Returned(JulianDayOf(call.args[1]))
  /\ UNCHANGED sys

\* The same birth moment one second later, converted again.
NextSecond ==
  /\ call.fn = "calculate_julian_day" /\ call.done /\ call.n < MaxTicks
  /\ LET b == [call.args[1] EXCEPT !.second = @ + 1]
     IN  call' = [call EXCEPT !.args = << b >>, !.ret = JulianDayOf(b), !.n = @ + 1]
  /\ UNCHANGED sys

NextPure ==
  \/ Call_get_nakshatra
  \/ Call_get_rasi
  \/ Call_get_tithi
  \/ Call_get_yoga
  \/ Call_apply_ayanamsa
  \/ Call_calculate_julian_day
  \/ NextSecond

SpecPure == InitPure /\ [][NextPure]_vars
---------------------------------------------------------------------------
(* One chart request served alone, from an empty list: what it returns.    *)

\* Everything lines 180-264 derive from a body that parses.
Derived(body) ==
  LET l              == ParsedLocals(body)
      sun_sayana     == calculate_sun_position(l.jd)
      moon_sayana    == calculate_moon_position(l.jd)
      sun_nirayana   == apply_ayanamsa(sun_sayana, ChitraPaksha)
      moon_nirayana  == apply_ayanamsa(moon_sayana, ChitraPaksha)
      lagna_lon      == PyMod(sun_nirayana + l.hour * 15 * Deg, Circle)
  IN  [ sun_sayana |-> sun_sayana, moon_sayana |-> moon_sayana,
        sun_nirayana |-> sun_nirayana, moon_nirayana |-> moon_nirayana,
        nakshatra |-> get_nakshatra(moon_nirayana), rasi |-> get_rasi(moon_nirayana),
        tithi |-> get_tithi(sun_nirayana, moon_nirayana),
        yoga |-> get_yoga(sun_nirayana, moon_nirayana),
        lagna_lon |-> lagna_lon, lagna |-> get_rasi(lagna_lon) ] @@ l

\* The entries the request appends, in program order.
AloneLogs(body) ==
  IF ParseError(body) # "ok"
  THEN << [step |-> "INPUT", data |-> InputData(body)],
          [step |-> "ERROR", data |-> [error |-> ParseError(body)]] >>
  ELSE LET d == Derived(body)
       IN  << [step |-> "INPUT", data |-> InputData(body)],
              [step |-> "JULIAN_DAY", data |-> [jd |-> d.jd]],
              [step |-> "SAYANA_POSITIONS",
               data |-> [sun_sayana |-> d.sun_sayana, moon_sayana |-> d.moon_sayana]],
              [step |-> "NIRAYANA_POSITIONS",
               data |-> [sun_nirayana |-> d.sun_nirayana, moon_nirayana |-> d.moon_nirayana,
                         ayanamsa_applied |-> ChitraPaksha]],
              [step |-> "NAKSHATRA",
               data |-> [name |-> d.nakshatra[1], number |-> d.nakshatra[2],
                         pada |-> d.nakshatra[3], lord |-> d.nakshatra[4]]],
              [step |-> "RASI",
               data |-> [name |-> d.rasi[1], number |-> d.rasi[2], lord |-> d.rasi[3]]],
              [step |-> "TITHI",
               data |-> [name |-> d.tithi[1], number |-> d.tithi[2], paksha |-> d.tithi[3]]],
              [step |-> "YOGA", data |-> [name |-> d.yoga[1], number |-> d.yoga[2]]],
              [step |-> "LAGNA",
               data |-> [name |-> d.lagna[1], number |-> d.lagna[2], lord |-> d.lagna[3],
                         longitude |-> d.lagna_lon]],
              [step |-> "BIRTH_CHART_CALCULATED", data |-> [status |-> "Complete"]] >>

\* The response of the request.
Alone(body) ==
  IF ParseError(body) # "ok"
  THEN [ success |-> FALSE, error |-> ParseError(body), status |-> 400,
         logs |-> AloneLogs(body) ]
  ELSE [ success |-> TRUE, data |-> Result(body, Derived(body)), status |-> 200,
         logs |-> AloneLogs(body) ]

\* Alone, tabulated.
AloneOf == [body \in Bodies |-> Alone(body)]

---------------------------------------------------------------------------
(* The claims.                                                             *)

Done(fn) == call.fn = fn /\ call.done

\* C1: for every sidereal Moon longitude in [0, 360), the pada get_nakshatra
\* returns is one of 1, 2, 3, 4.
C1_PadaInRange ==
  (Done("get_nakshatra") /\ call.args[1] < Circle) => call.ret[3] \in 1..4

\* C2: for all Sun and Moon longitudes in [0, 360] the ordinals are in range
\* (nakshatra 1..27, rasi 1..12, yoga 1..27, tithi 1..15), so every table is
\* indexed within its length.
C2_OrdinalsInRange ==
  /\ Done("get_nakshatra") =>
       (call.ret[2] \in 1..27 /\ call.ret[2] \in DOMAIN NAKSHATRAS
          /\ call.ret[2] \in DOMAIN NAKSHATRA_LORDS)
  /\ Done("get_rasi") =>
       (call.ret[2] \in 1..12 /\ call.ret[2] \in DOMAIN RASIS
          /\ call.ret[2] \in DOMAIN RASI_LORDS)
  /\ Done("get_yoga") => (call.ret[2] \in 1..27 /\ call.ret[2] \in DOMAIN YOGAS)
  /\ Done("get_tithi") => (call.ret[2] \in 1..15 /\ call.ret[2] \in DOMAIN TITHIS)

\* C2's case: the classifiers were applied to the longitude 360 itself.
C2_Witness ==
  Done("get_rasi") /\ call.args[1] = Circle /\ call.ret = << "Meena", 12, "Guru" >>

\* C3: get_rasi puts a longitude on the edge k*30 (k in 1..11) into bucket
\* k+1 and every longitude from 330 up to and including 360 into bucket 12;
\* get_nakshatra and get_yoga stay at 27 and get_tithi at 15 from the start of
\* the last bucket up to 360.
C3_EdgesAndClamp ==
  /\ Done("get_rasi") =>
       /\ \A k \in 1..11 : (call.args[1] = k * RasiSpan => call.ret[2] = k + 1)
       /\ (call.args[1] >= 11 * RasiSpan => call.ret[2] = 12)
  /\ Done("get_nakshatra") =>
       (call.args[1] >= 26 * NakshatraSpan => call.ret[2] = 27)
  /\ Done("get_yoga") =>
       (PyMod(call.args[1] + call.args[2], Circle) >= 26 * NakshatraSpan => call.ret[2] = 27)
  /\ Done("get_tithi") =>
       (PyMod(call.args[2] - call.args[1], Circle) >= 14 * TithiSpan => call.ret[2] = 15)

\* C3's case: get_rasi was applied to the edge 30.0 and answered bucket 2.
C3_Witness ==
  Done("get_rasi") /\ call.args[1] = RasiSpan /\ call.ret = << "Vrishabha", 2, "Shukra" >>

\* C4: (apply_ayanamsa(x, a) + a) mod 360 = x mod 360 for every tropical
\* longitude x and every ayanamsa a.
C4_RoundTrip ==
  Done("apply_ayanamsa") =>
    PyMod(call.ret + call.args[2], Circle) = PyMod(call.args[1], Circle)

\* C4's case: a longitude below the ayanamsa, so that the difference wraps.
C4_Witness ==
  /\ Done("apply_ayanamsa")
  /\ call.args = << 1, ChitraPaksha >>
  /\ call.ret = Circle + 1 - ChitraPaksha

\* C5: two birth moments that differ only by +1 in the second field have
\* Julian Days that differ by exactly 1/86400 of a day.
C5_OneSecondLater ==
  [][ ( /\ Done("calculate_julian_day")
        /\ call'.fn = "calculate_julian_day" /\ call'.done
        /\ call'.args[1] = [call.args[1] EXCEPT !.second = @ + 1] )
      => JDDiff(call'.ret, call.ret) = 1 ]_vars

\* C5's case: 11:59:59 UTC was advanced by one second onto the next Julian Day.
C5_Witness ==
  /\ Done("calculate_julian_day") /\ call.n = 1
  /\ call.args[1].hour = 11 /\ call.args[1].minute = 59 /\ call.args[1].second = 60
  /\ call.args[1].timezone = 0
  /\ call.ret[2] = 0

\* The birth moment 2000-01-01 12:00:00 with timezone offset 0.
J2000Moment ==
  [year |-> 2000, month |-> 1, day |-> 1, hour |-> 12, minute |-> 0, second |-> 0,
   timezone |-> 0]

\* C6: calculate_julian_day of 2000-01-01 12:00:00, timezone 0, is exactly
\* 2451545.0, so T of the position models is 0.
C6_J2000 ==
  (Done("calculate_julian_day") /\ call.args[1] = J2000Moment) =>
    (call.ret = << 2451545, 0 >> /\ CenturyT(call.ret) = 0)

\* C6's case: the reference moment was converted.
C6_Witness ==
  Done("calculate_julian_day") /\ call.args[1] = J2000Moment /\ call.n = 0

Returned200(p) == pc[p] = "done" /\ response[p].success

\* C7 as stated: the result's name, sex, birth_date, birth_time and ayanamsa
\* label equal the values the caller supplied.
C7_IdentityVerbatim ==
  \A p \in Requests : Returned200(p) =>
    \A k \in {"name", "sex", "birth_date", "birth_time", "ayanamsa"} :
      k \in DOMAIN request[p] =>
        (k \in DOMAIN response[p].data /\ response[p].data[k] = request[p][k])

\* C7 amended: name, sex, birth_date and birth_time of the result are the
\* caller's (absent when the caller sent none); the ayanamsa label of the
\* result is "Chitra Paksha" whatever label the caller sent.
C7_IdentityAmended ==
  \A p \in Requests : Returned200(p) =>
    /\ \A k \in {"name", "sex", "birth_date", "birth_time"} :
         Entry(response[p].data, k) = Entry(request[p], k)
    /\ response[p].data["ayanamsa"] = "Chitra Paksha"

\* C7's case: a request that named another ayanamsa got its chart.
C7_Witness ==
  \E p \in Requests :
    /\ Returned200(p)
    /\ request[p]["ayanamsa"] = "Lahiri"
    /\ response[p].data["name"] = "Asha"
    /\ response[p].data["ayanamsa"] = "Chitra Paksha"

\* C8 as stated: under any interleaving, the response of each request is the
\* one it returns when it runs alone.
C8_ResponseAsAlone ==
  \A p \in Requests : pc[p] = "done" => response[p] = AloneOf[request[p]]

\* Whether request p ran with no other request begun and no clear_logs.
RanAlone(p) == clears = 0 /\ \A q \in Requests \ {p} : pc[q] = "idle"

\* C8 amended: under any interleaving the success flag, the status, the error
\* and the chart data of each response are those of the request run alone;
\* the logs of the response are those of the lone run when the request ran
\* alone.
C8_DataAsAlone ==
  \A p \in Requests : pc[p] = "done" =>
    /\ response[p].success = AloneOf[request[p]].success
    /\ response[p].status = AloneOf[request[p]].status
    /\ (response[p].success => response[p].data = AloneOf[request[p]].data)
    /\ (~response[p].success => response[p].error = AloneOf[request[p]].error)
    /\ (RanAlone(p) => response[p] = AloneOf[request[p]])

\* C8's case: a request returned its chart after the other request had
\* appended entries between its own.
C8_Witness ==
  \E p \in Requests :
    /\ Returned200(p)
    /\ preempts > 0
    /\ Len(response[p].logs) > 10
    /\ response[p].data = AloneOf[request[p]].data

\* The steps of a successful request, in program order.
StepOrder ==
  << "INPUT", "JULIAN_DAY", "SAYANA_POSITIONS", "NIRAYANA_POSITIONS", "NAKSHATRA",
     "RASI", "TITHI", "YOGA", "LAGNA", "BIRTH_CHART_CALCULATED" >>

IsPrefix(s, t) == Len(s) <= Len(t) /\ SubSeq(t, 1, Len(s)) = s

IsSuffix(s, t) == Len(s) <= Len(t) /\ SubSeq(t, Len(t) - Len(s) + 1, Len(t)) = s

\* The steps of the entries of request p in the list, in list order.
OwnSteps(p) ==
  LET own == SelectSeq(calculation_logs, LAMBDA e : e.by = p)
  IN  [i \in 1..Len(own) |-> own[i].step]

\* C10: only clear_logs removes or reorders entries of the list; a request
\* that returns its chart has appended exactly the ten steps of StepOrder, in
\* that order, and its entries in the list are in that order under any
\* interleaving; the logs a request returns are the whole list, that is every
\* entry appended since the last clear_logs.
C10_AppendOnly ==
  /\ [][ clears' # clears \/ IsPrefix(calculation_logs, calculation_logs') ]_vars
  /\ [][ \A p \in Requests :
           (pc[p] # "done" /\ pc'[p] = "done") =>
              response'[p].logs = Strip(calculation_logs) ]_vars
  /\ [](\A p \in Requests :
          /\ (Returned200(p) => trace[p] = StepOrder)
          /\ IsSuffix(OwnSteps(p), trace[p])
          /\ (clears = 0 => OwnSteps(p) = trace[p]))

\* C10's case: both requests returned their charts, their entries interleaved
\* in the list.
C10_Witness ==
  /\ \A p \in Requests : Returned200(p)
  /\ clears = 0
  /\ Len(calculation_logs) = 20
  /\ \E i, j, k \in 1..20 :
       /\ i < j /\ j < k
       /\ calculation_logs[i].by = calculation_logs[k].by
       /\ calculation_logs[i].by # calculation_logs[j].by

\* C9: get_tithi answers "Suklapaksha" for every pair of longitudes, and
\* tithi 15, "Purnima/Amavasya", for every elongation in [168, 360).
C9_AlwaysSukla ==
  Done("get_tithi") =>
    /\ call.ret[3] = "Suklapaksha"
    /\ (PyMod(call.args[2] - call.args[1], Circle) >= 14 * TithiSpan
          => (call.ret[1] = "Purnima/Amavasya" /\ call.ret[2] = 15))

\* C9's case: an elongation of 270 degrees, in the waning half.
C9_Witness ==
  /\ Done("get_tithi")
  /\ call.args = << 0, 270 * Deg >>
  /\ call.ret = << "Purnima/Amavasya", 15, "Suklapaksha" >>
===========================================================================
